---- MODULE Spec2Model ----
(***************************************************************************)
(* Model of Heap<T> (src/src/lib.rs): a rooted tree kept in a growable     *)
(* vector of (value, Option<parent index>) slots, with a HashSet of free   *)
(* indices and a counter of live nodes.                                    *)
(*                                                                         *)
(* Rust indices are 0-based; slot i of the vector is inner[i + 1] here.    *)
(* Option<usize> is modelled as a sequence of length at most one:          *)
(* None = << >>, Some(p) = << p >>.                                        *)
(***************************************************************************)
EXTENDS Naturals, Integers, Sequences, FiniteSets, TLC

\* The largest number of slots the vector is allowed to grow to.
MaxSlots == 5

\* The payloads T ranges over: the one given to new, and those given to insert.
RootValues == {"r"}
Values == {"a", "b"}

\* The indices callers pass in: every slot index and one beyond the largest.
Indices == 0..MaxSlots

VARIABLES
    inner,      \* Vec<(T, Option<usize>)>
    free,       \* HashSet<usize>
    len,        \* usize
    call,       \* the last call made: operation and arguments
    result,     \* how the last call ended: returned index or panic
    pre         \* inner, free and len as they were when the last call began

vars == <<inner, free, len, call, result, pre>>

----------------------------------------------------------------------------
\* Option<usize>
None == << >>
Some(p) == << p >>
is_some(o) == o /= None
unwrap(o) == o[1]

\* One slot of the vector: the tuple (T, Option<usize>).
Node(v, par) == [val |-> v, parent |-> par]

\* impl Index<usize> for Heap: &self.inner[index], which panics when the
\* index is out of bounds.
IndexPanics(in, index) == index >= Len(in)
Slot(in, index) == in[index + 1]

\* is_valid_idx: index == 0 || self[index].1.is_some().  The || short-circuits,
\* so index 0 never indexes the vector; any other index does and may panic.
is_valid_idx_panics(in, index) == index /= 0 /\ IndexPanics(in, index)
is_valid_idx(in, index) == index = 0 \/ is_some(Slot(in, index).parent)

\* Variant of direct_children_of whose scan starts one slot too late.
direct_children_of_late(in, index) ==
    { idx \in (index + 2)..(Len(in) - 1) :
        LET node == Slot(in, idx)
        IN  is_some(node.parent) /\ unwrap(node.parent) = index }

\* direct_children_of: the slots after index whose parent is Some(index).
direct_children_of(in, index) ==
    { idx \in (index + 1)..(Len(in) - 1) :
        LET node == Slot(in, idx)
        IN  is_some(node.parent) /\ unwrap(node.parent) = index }

\* The loop of descendants_of: slots idx, idx+1, ... in index order, adding
\* idx when its parent is already in the working set.
RECURSIVE descendants_scan(_, _, _)
descendants_scan(in, idx, descendants) ==
    IF idx >= Len(in) THEN descendants
    ELSE LET node == Slot(in, idx)
         IN  descendants_scan(in, idx + 1,
                IF is_some(node.parent) /\ unwrap(node.parent) \in descendants
                THEN descendants \cup {idx}
                ELSE descendants)

\* Variant of descendants_of that tests the parent against index alone instead
\* of the working set.
descendants_of_one_level(in, index) == direct_children_of(in, index)

descendants_of(in, index) ==
    descendants_scan(in, index + 1, {index}) \ {index}

----------------------------------------------------------------------------
\* History of the last call.
\* node is the value a call has moved into the store: a call that panics
\* drops its value during unwinding, and remove takes none.
NoValue == "-"
Call(op, node, arg) == [op |-> op, node |-> node, arg |-> arg]
Snapshot == [inner |-> inner, free |-> free, len |-> len]
Returned(i) == [outcome |-> "ok", ret |-> i, msg |-> ""]
Panicked(m) == [outcome |-> "panic", ret |-> 0, msg |-> m]

\* Variant of new whose first free index is 2.
new_free_from_two(root) ==
    /\ inner = << Node(root, None) >>
    /\ free = {2}
    /\ len = 1

\* Heap::new(root) and Heap::with_capacity(capacity, root): the capacity is
\* not part of the logical state.
new(root) ==
    /\ inner = << Node(root, None) >>
    /\ free = {1}
    /\ len = 1

Init ==
    /\ \E root \in RootValues : new(root) /\ call = Call("new", root, 0)
    /\ result = Returned(0)
    /\ pre = [inner |-> << >>, free |-> {}, len |-> 0]

----------------------------------------------------------------------------
\* insert: the candidates of
\*   self.free.iter().skip_while(|x| x <= &&parent).next()
\* A HashSet iterates in an arbitrary order, so the first element that is not
\* skipped can be any member of free greater than parent.
\* Variant of insert_candidates without the skip_while.
insert_candidates_unfiltered(fr, parent) == fr

\* Variant of insert_candidates whose skip_while tests x < parent.
insert_candidates_inclusive(fr, parent) == { x \in fr : x >= parent }

insert_candidates(fr, parent) == { x \in fr : x > parent }

\* insert panics at the assert, whatever node is: self[parent] out of bounds.
InsertPanicIndex(parent) ==
    /\ is_valid_idx_panics(inner, parent)
    /\ call' = Call("insert", NoValue, parent)
    /\ result' = Panicked("index out of bounds")
    /\ pre' = Snapshot
    /\ UNCHANGED <<inner, free, len>>

\* insert panics at the assert: the parent is not the index of a valid node.
InsertPanicParent(parent) ==
    /\ ~is_valid_idx_panics(inner, parent)
    /\ ~is_valid_idx(inner, parent)
    /\ call' = Call("insert", NoValue, parent)
    /\ result' = Panicked("Tried to insert with invalid parent")
    /\ pre' = Snapshot
    /\ UNCHANGED <<inner, free, len>>

\* insert panics at the expect: no free index greater than parent.
InsertPanicFree(parent) ==
    /\ ~is_valid_idx_panics(inner, parent)
    /\ is_valid_idx(inner, parent)
    /\ insert_candidates(free, parent) = {}
    /\ call' = Call("insert", NoValue, parent)
    /\ result' = Panicked("Missing trailing free index")
    /\ pre' = Snapshot
    /\ UNCHANGED <<inner, free, len>>

\* The branch of insert taken for the chosen index i: `i >= self.len()`
\* compares with the count of live nodes.
insert_appends(i, n) == i >= n

\* Variant of insert without the assert on is_valid_idx(parent).
insert_parent_unchecked(node, parent) ==
    /\ \E i \in { x \in free : x > parent } :
        /\ IF i >= len
           THEN /\ Len(inner) < MaxSlots
                /\ free' = (free \ {i}) \cup {i + 1}
                /\ inner' = Append(inner, Node(node, Some(parent)))
           ELSE /\ ~IndexPanics(inner, i)
                /\ free' = free \ {i}
                /\ inner' = [inner EXCEPT ![i + 1] = Node(node, Some(parent))]
        /\ len' = len + 1
        /\ result' = Returned(i)
    /\ call' = Call("insert", node, parent)
    /\ pre' = Snapshot

\* insert returns i, in a vector that grows to cap slots at most.  In the
\* else branch self[i] is in bounds in every reachable state
\* (OverwriteInBounds), so that branch never panics.
insert_upto(node, parent, cap) ==
    /\ ~is_valid_idx_panics(inner, parent)
    /\ is_valid_idx(inner, parent)
    /\ \E i \in insert_candidates(free, parent) :
        /\ IF insert_appends(i, len)
           THEN /\ Len(inner) < cap
                /\ free' = (free \ {i}) \cup {i + 1}
                /\ inner' = Append(inner, Node(node, Some(parent)))
           ELSE /\ ~IndexPanics(inner, i)
                /\ free' = free \ {i}
                /\ inner' = [inner EXCEPT ![i + 1] = Node(node, Some(parent))]
        /\ len' = len + 1
        /\ result' = Returned(i)
    /\ call' = Call("insert", node, parent)
    /\ pre' = Snapshot

\* insert, the vector growing to MaxSlots slots at most.
insert(node, parent) == insert_upto(node, parent, MaxSlots)

----------------------------------------------------------------------------
\* remove panics: index is 0.
RemovePanicRoot ==
    /\ call' = Call("remove", NoValue, 0)
    /\ result' = Panicked("Tried to remove the root node.")
    /\ pre' = Snapshot
    /\ UNCHANGED <<inner, free, len>>

\* remove panics at the second assert: self[index] out of bounds.
RemovePanicIndex(index) ==
    /\ index > 0
    /\ is_valid_idx_panics(inner, index)
    /\ call' = Call("remove", NoValue, index)
    /\ result' = Panicked("index out of bounds")
    /\ pre' = Snapshot
    /\ UNCHANGED <<inner, free, len>>

\* remove panics at the second assert: index is not valid.
RemovePanicInvalid(index) ==
    /\ index > 0
    /\ ~is_valid_idx_panics(inner, index)
    /\ ~is_valid_idx(inner, index)
    /\ call' = Call("remove", NoValue, index)
    /\ result' = Panicked("Tried to remove an invalid node")
    /\ pre' = Snapshot
    /\ UNCHANGED <<inner, free, len>>

\* Variant of should_remove that takes every later live slot for a descendant.
should_remove_all_later(in, index) ==
    {index} \cup { idx \in (index + 1)..(Len(in) - 1) : is_some(Slot(in, idx).parent) }

\* Variant of should_remove that leaves out the last descendant.
should_remove_but_last(in, index) ==
    LET d == descendants_of(in, index)
    IN  {index} \cup { x \in d : \E y \in d : y > x }

\* Variant of should_remove without the descendants.
should_remove_index_only(in, index) == {index}

\* The set remove works through: index and its descendants.
should_remove(in, index) == {index} \cup descendants_of(in, index)

\* Variant of tombstone that leaves the parent links in place.
tombstone_keeps_parent(in, nodes) == in

\* The body of remove's loop applied to every member of should_remove: the
\* iterations touch different slots, so their order does not matter.
tombstone(in, nodes) ==
    [ k \in 1..Len(in) |->
        IF (k - 1) \in nodes THEN [in[k] EXCEPT !.parent = None] ELSE in[k] ]

\* Variant of remove without the assert on index > 0.
remove_root_unchecked(index) ==
    /\ ~is_valid_idx_panics(inner, index)
    /\ is_valid_idx(inner, index)
    /\ LET nodes == {index} \cup descendants_of(inner, index)
       IN  /\ Cardinality(nodes) <= len
           /\ free' = free \cup nodes
           /\ inner' = [ k \in 1..Len(inner) |->
                          IF (k - 1) \in nodes
                          THEN [inner[k] EXCEPT !.parent = None] ELSE inner[k] ]
           /\ len' = len - Cardinality(nodes)
    /\ call' = Call("remove", NoValue, index)
    /\ result' = Returned(0)
    /\ pre' = Snapshot

\* Variant of remove without the assert on is_valid_idx(index).
remove_validity_unchecked(index) ==
    /\ index > 0
    /\ ~is_valid_idx_panics(inner, index)
    /\ LET nodes == {index} \cup descendants_of(inner, index)
       IN  /\ Cardinality(nodes) <= len
           /\ free' = free \cup nodes
           /\ inner' = [ k \in 1..Len(inner) |->
                          IF (k - 1) \in nodes
                          THEN [inner[k] EXCEPT !.parent = None] ELSE inner[k] ]
           /\ len' = len - Cardinality(nodes)
    /\ call' = Call("remove", NoValue, index)
    /\ result' = Returned(0)
    /\ pre' = Snapshot

\* remove returns.  self.len -= 1 never underflows in a reachable state
\* (RemoveNoUnderflow).
remove(index) ==
    /\ index > 0
    /\ ~is_valid_idx_panics(inner, index)
    /\ is_valid_idx(inner, index)
    /\ LET nodes == should_remove(inner, index)
       IN  /\ Cardinality(nodes) <= len
           /\ free' = free \cup nodes
           /\ inner' = tombstone(inner, nodes)
           /\ len' = len - Cardinality(nodes)
    /\ call' = Call("remove", NoValue, index)
    /\ result' = Returned(0)
    /\ pre' = Snapshot

----------------------------------------------------------------------------
\* A panic ends the run: the assert! and expect failures are fatal.  (Every
\* panic happens before the call has changed anything, so a caller that
\* caught the unwinding would go on from the state the call began in, which
\* the runs without that call cover.)
Running == result.outcome /= "panic"

Next ==
    \/ \E node \in Values, parent \in Indices : Running /\ insert(node, parent)
    \/ \E parent \in Indices : Running /\ InsertPanicIndex(parent)
    \/ \E parent \in Indices : Running /\ InsertPanicParent(parent)
    \/ \E parent \in Indices : Running /\ InsertPanicFree(parent)
    \/ \E index \in Indices : Running /\ remove(index)
    \/ Running /\ RemovePanicRoot
    \/ \E index \in Indices : Running /\ RemovePanicIndex(index)
    \/ \E index \in Indices : Running /\ RemovePanicInvalid(index)

Spec == Init /\ [][Next]_vars

----------------------------------------------------------------------------
\* Heaps on which remove is never called.

\* tests::make_test_heap: the parents of its eight inserts, in order.
TestParents == << 0, 0, 0, 1, 1, 2, 2, 4 >>

\* The heap is new or a prefix of make_test_heap's tree.
OnTestPath ==
    /\ Len(inner) = len
    /\ len <= Len(TestParents)
    /\ \A k \in 1..(len - 1) : Slot(inner, k).parent = Some(TestParents[k])

\* The next insert of make_test_heap, which goes on beyond MaxSlots slots.
InsertTestNode(node) ==
    /\ OnTestPath
    /\ insert_upto(node, TestParents[len], Len(TestParents) + 1)

NextNoRemove ==
    \/ \E node \in Values, parent \in Indices : Running /\ insert(node, parent)
    \/ \E parent \in Indices : Running /\ InsertPanicIndex(parent)
    \/ \E node \in Values : Running /\ InsertTestNode(node)

SpecNoRemove == Init /\ [][NextNoRemove]_vars

----------------------------------------------------------------------------
\* The shape of the state.
TypeOK ==
    /\ Len(inner) \in 1..MaxSlots
    /\ \A k \in 1..Len(inner) :
        /\ inner[k].val \in (IF k = 1 THEN RootValues ELSE Values)
        /\ inner[k].parent \in {None} \cup { Some(p) : p \in Indices }
    /\ free \subseteq 0..(MaxSlots + 1)
    /\ len \in Nat

\* In insert's else branch, self[i] is in bounds.
OverwriteInBounds ==
    \A parent \in 0..(Len(inner) - 1) :
        is_valid_idx(inner, parent) =>
            \A i \in insert_candidates(free, parent) :
                ~insert_appends(i, len) => ~IndexPanics(inner, i)

\* In remove, self.len -= 1 never underflows.
RemoveNoUnderflow ==
    \A index \in 1..(Len(inner) - 1) :
        is_valid_idx(inner, index) =>
            Cardinality(should_remove(inner, index)) <= len
----------------------------------------------------------------------------
\* Vocabulary of the properties.
Slots(in) == 0..(Len(in) - 1)
ValidIndices(in) == { i \in Slots(in) : is_valid_idx(in, i) }
InsertReturned == call.op = "insert" /\ result.outcome = "ok"
RemoveReturned == call.op = "remove" /\ result.outcome = "ok"

\* The parent links followed from j, at most n of them.
RECURSIVE AncestorsWithin(_, _, _)
AncestorsWithin(in, j, n) ==
    IF n = 0 \/ ~is_some(Slot(in, j).parent) THEN {}
    ELSE LET p == unwrap(Slot(in, j).parent)
         IN  {p} \cup (IF p \in Slots(in) THEN AncestorsWithin(in, p, n - 1) ELSE {})

\* For every valid index, the indices its parent links lead to.
Ancestors(in) ==
    [ j \in ValidIndices(in) |-> AncestorsWithin(in, j, Len(in)) ]

\* The valid indices other than i whose parent links lead to i, anc being
\* Ancestors of the store.
TrueDescendants(anc, i) == { j \in DOMAIN anc \ {i} : i \in anc[j] }

\* C1: when insert(v, p) returns i, slot i holds (v, Some(p)), i is valid and
\* i is among the direct children of p.
C1_InsertReturnsHandle ==
    InsertReturned =>
        LET i == result.ret
        IN  /\ i \in Slots(inner)
            /\ Slot(inner, i) = Node(call.node, Some(call.arg))
            /\ is_valid_idx(inner, i)
            /\ i \in direct_children_of(inner, call.arg)

\* C2: len equals the number of valid indices of the store and is at least 1.
C2_LenCountsValid ==
    /\ len = Cardinality(ValidIndices(inner))
    /\ len >= 1
\* C3: every slot i > 0 whose parent is Some(p) has p < i.
C3_ParentBelowChild ==
    \A i \in Slots(inner) \ {0} :
        is_some(Slot(inner, i).parent) => unwrap(Slot(inner, i).parent) < i

\* C3's case: insert has just written a vacated slot, under a non-root parent.
C3_Witness ==
    /\ InsertReturned
    /\ call.arg > 0
    /\ Len(inner) = Len(pre.inner)
    /\ \E i \in Slots(inner) \ {0} : Slot(inner, i) /= Slot(pre.inner, i)

\* C4: for every valid parent there is a free index above it, and insert
\* never panics for want of one.
C4_FreeIndexAboveParent ==
    /\ \A p \in ValidIndices(inner) : insert_candidates(free, p) /= {}
    /\ result.msg /= "Missing trailing free index"

\* C5: the index insert returns was not the index of a valid node when the
\* call began.
C5_ReturnedIndexWasNotLive ==
    InsertReturned => result.ret \notin ValidIndices(pre.inner)

\* C6: after remove(i), i and every index that descendants_of(i) held before
\* the call are invalid.
C6_RemovedAreInvalid ==
    RemoveReturned =>
        /\ ~is_valid_idx(inner, call.arg)
        /\ \A d \in descendants_of(pre.inner, call.arg) : ~is_valid_idx(inner, d)

\* C6's case: remove has returned for a node that had descendants.
C6_Witness ==
    /\ RemoveReturned
    /\ Cardinality(descendants_of(pre.inner, call.arg)) >= 2

\* C7: remove(i) lowers len by exactly 1 + |descendants_of(i)|, the
\* descendants taken before the call.
C7_RemoveLowersLen ==
    RemoveReturned =>
        len + 1 + Cardinality(descendants_of(pre.inner, call.arg)) = pre.len

\* C7's case: remove has returned for a node with a child and a grandchild.
C7_Witness ==
    /\ RemoveReturned
    /\ \E d \in descendants_of(pre.inner, call.arg) :
        d \notin direct_children_of(pre.inner, call.arg)

\* C8: the index insert returns is greater than the parent it was given.
C8_ReturnedAboveParent ==
    InsertReturned => result.ret > call.arg

\* C8's case: insert has returned for a non-root parent while there was a
\* free index below that parent.
C8_Witness ==
    /\ InsertReturned
    /\ call.arg > 0
    /\ \E x \in pre.free : x < call.arg

\* C9: for every valid index i, descendants_of(i) is the set of valid
\* indices other than i whose parent links lead to i.
C9_DescendantsExact ==
    LET anc == Ancestors(inner)
    IN  \A i \in DOMAIN anc :
            descendants_of(inner, i) = TrueDescendants(anc, i)

\* C9's case: a non-root node with a grandchild, in a store with a tombstone.
C9_Witness ==
    \E i \in ValidIndices(inner) \ {0} :
        /\ descendants_of(inner, i) \ direct_children_of(inner, i) /= {}
        /\ ValidIndices(inner) /= Slots(inner)

\* C10: for every valid index i, direct_children_of(i) is the set of valid
\* indices whose parent is Some(i).
C10_ChildrenExact ==
    LET valid == ValidIndices(inner)
    IN  \A i \in valid :
            direct_children_of(inner, i) =
                { j \in valid : Slot(inner, j).parent = Some(i) }

\* C10's case: a non-root node whose child sits in the very next slot, in a
\* store with a tombstone.
C10_Witness ==
    \E i \in ValidIndices(inner) \ {0} :
        /\ (i + 1) \in direct_children_of(inner, i)
        /\ ValidIndices(inner) /= Slots(inner)

\* The store, the free set and len are what they were when the last call began.
StateUntouched == inner = pre.inner /\ free = pre.free /\ len = pre.len
Aborted == result.outcome = "panic"

\* C11: remove(0) panics in every reachable state and leaves the store, the
\* free set and len as they were: it can always panic, it can never return,
\* and whenever it was the last call it has panicked and changed nothing.
C11_RemoveRootAborts ==
    /\ ENABLED RemovePanicRoot
    /\ ~ENABLED remove(0)
    /\ (call.op = "remove" /\ call.arg = 0) => (Aborted /\ StateUntouched)

\* C11's case: remove(0) was called on a heap that holds nodes and tombstones.
C11_Witness ==
    /\ call.op = "remove" /\ call.arg = 0
    /\ Aborted
    /\ len >= 3
    /\ ValidIndices(inner) /= Slots(inner)

\* C12: insert with a parent that is not a valid index (a tombstone, or at or
\* beyond the end of the store) panics, whatever the free set holds, and
\* leaves the store, the free set and len as they were.  Every reachable state
\* is followed by such a call for every parent in Indices, so this covers
\* every state and every free set.
C12_InsertInvalidParentAborts ==
    (call.op = "insert" /\ call.arg \notin ValidIndices(pre.inner)) =>
        (Aborted /\ StateUntouched)

\* C12's case: insert was called with a tombstoned parent while the free set
\* held an index above it.
C12_Witness ==
    /\ call.op = "insert"
    /\ Aborted
    /\ call.arg \in Slots(pre.inner) \ ValidIndices(pre.inner)
    /\ insert_candidates(pre.free, call.arg) /= {}

\* C13: remove(i) with i > 0 not valid panics and leaves the store, the free
\* set and len as they were; right after remove(i) has returned, i is such an
\* index, so a second remove(i) is such a call.
C13_RemoveInvalidAborts ==
    /\ (call.op = "remove" /\ call.arg > 0
            /\ call.arg \notin ValidIndices(pre.inner)) =>
            (Aborted /\ StateUntouched)
    /\ RemoveReturned => call.arg \notin ValidIndices(inner)

\* C13's case: remove was called on an index that an earlier remove had
\* tombstoned.
C13_Witness ==
    /\ call.op = "remove"
    /\ Aborted
    /\ call.arg \in (Slots(pre.inner) \ {0}) \ ValidIndices(pre.inner)
    /\ call.arg \in pre.free

\* C14: the free set and the valid indices partition the store: no valid
\* index is free, every slot index that is not free is valid, and 0 is never
\* free.
C14_FreeValidPartition ==
    /\ 0 \notin free
    /\ \A i \in Slots(inner) : (i \in free) <=> ~is_valid_idx(inner, i)

\* C15: the free set holds an index at or beyond the end of the store.
C15_TrailingFreeIndex ==
    \E f \in free : f >= Len(inner)

\* C16: the index insert returns is the smallest free index above the parent.
C16_SmallestFreeChosen ==
    InsertReturned =>
        \A f \in insert_candidates(pre.free, call.arg) : result.ret <= f

\* C17: insert leaves every node that was valid before the call valid and
\* with the same value and parent.
C17_InsertKeepsLiveNodes ==
    InsertReturned =>
        \A j \in ValidIndices(pre.inner) :
            /\ is_valid_idx(inner, j)
            /\ Slot(inner, j) = Slot(pre.inner, j)
\* C18: every slot whose parent is Some(p) has a valid p.
C18_ParentIsValid ==
    \A i \in Slots(inner) :
        is_some(Slot(inner, i).parent) =>
            LET p == unwrap(Slot(inner, i).parent)
            IN  p \in Slots(inner) /\ is_valid_idx(inner, p)

\* C18's case: remove has taken out a node with descendants and left a node
\* that hangs under a non-root parent.
C18_Witness ==
    /\ RemoveReturned
    /\ descendants_of(pre.inner, call.arg) /= {}
    /\ \E i \in Slots(inner) :
        is_some(Slot(inner, i).parent) /\ unwrap(Slot(inner, i).parent) > 0

\* C19: remove(i) changes exactly the subtree of i: slots outside
\* {i} u descendants_of(i) are as before, the removed slots keep their value
\* and have parent None, the free set gains exactly the removed indices, and
\* the store keeps its length.
C19_RemoveFrame ==
    RemoveReturned =>
        LET removed == {call.arg} \cup descendants_of(pre.inner, call.arg)
        IN  /\ Len(inner) = Len(pre.inner)
            /\ \A j \in Slots(pre.inner) \ removed :
                    Slot(inner, j) = Slot(pre.inner, j)
            /\ \A j \in removed :
                    /\ Slot(inner, j).val = Slot(pre.inner, j).val
                    /\ Slot(inner, j).parent = None
            /\ free = pre.free \cup removed

\* C19's case: remove has taken out a node with a descendant while live and
\* tombstoned slots lay after the node, outside its subtree.
C19_Witness ==
    /\ RemoveReturned
    /\ descendants_of(pre.inner, call.arg) /= {}
    /\ \E j, k \in Slots(pre.inner) :
        /\ j > call.arg /\ k > call.arg
        /\ {j, k} \cap descendants_of(pre.inner, call.arg) = {}
        /\ is_valid_idx(pre.inner, j)
        /\ ~is_valid_idx(pre.inner, k)
\* C20: while remove has not been called, the store length is len, the k-th
\* insert returns k (k - 1 inserts and the root make len = k before it) and
\* puts its node in slot k, and the indices 1 .. len - 1 are all valid; so the
\* eight inserts of make_test_heap fill the indices 1..8 and leave len = 9.
C20_SequentialHandles ==
    /\ Len(inner) = len
    /\ ValidIndices(inner) = Slots(inner)
    /\ InsertReturned =>
        /\ result.ret = pre.len
        /\ len = pre.len + 1
        /\ Slot(inner, result.ret) = Node(call.node, Some(call.arg))
    /\ (InsertReturned /\ result.ret = Len(TestParents)) => len = 9

\* C20's case: make_test_heap's tree is complete, its eighth insert having
\* returned 8.
C20_Witness ==
    /\ InsertReturned
    /\ result.ret = 8
    /\ len = 9
    /\ \A k \in 1..8 : Slot(inner, k).parent = Some(TestParents[k])
====
